---- MODULE Spec2Model ----
(***************************************************************************)
(* Application workflow of the GMap front end: the browser-local store     *)
(* (localStorage keys 'mapApplications', 'activityLogs', 'loggedInUser'),  *)
(* the officer dashboard, the applicant dashboard with the submission form *)
(* and the login page, each running in one of several browser tabs that    *)
(* share the store; the map comparison dashboard and the apiService calls  *)
(* it makes to the backend, whose answers are inputs.                      *)
(***************************************************************************)
EXTENDS Integers, Sequences, FiniteSets, TLC

\* ---------------------------------------------------------------- bounds
MaxLogs == 2        \* activity log entries before the model stops logging
MaxSessions == 1    \* comparison sessions the backend hands out
MaxTime == 2        \* Date.now() ranges over 0..MaxTime
MaxApplications == 2  \* stored applications where submissions may share a millisecond

\* ------------------------------------------------------------- constants
Tabs == {"tab1", "tab2"}
Methods == {"standard", "advanced"}
Routes == {"/", "/admin", "/general", "/dslr", "/form", "/map-comparison"}
Users == {"admin", "general", "dslr"}

Null == "null"
Undefined == "undefined"
NoSession == 0
EmptyObject == "{}"
File == "File"

Pending == "Pending DSLR Approval"
Ready == "Ready for Download"
Rejected == "Rejected"

DirectionInputs == {"", "North"}      \* the select's empty option and one of directions
VillageInputs == {"", "ambeli"}
SurveyInputs == {"", "1"}
ImageInputs == {Null, File}
InputTypes == {"survey", "image"}
RandomInputs == {0, 7, 10}            \* values of Math.floor(Math.random() * 1000)

MaxImageSize == 5 * 1024 * 1024       \* the size limit of handleImageChange, in bytes
\* e.target.files[0]: no file (<<>>) or a file of a size at, next to or far from the limit
FileInputs ==
    {<<>>, <<0>>, <<MaxImageSize - 1>>, <<MaxImageSize>>, <<MaxImageSize + 1>>,
     <<2 * MaxImageSize + 1>>}
StorageOutcomes == {"ok", "apps", "logs"}

VARIABLES
    mapApplications,      \* localStorage 'mapApplications' (parsed)
    activityLogs,         \* localStorage 'activityLogs' (parsed)
    loggedInUser,         \* localStorage 'loggedInUser': a role or Null
    now,                  \* the latest value Date.now() returned
    nextSession,          \* sessions the backend has created so far
    issuedFor,            \* per session id: the village and index of the request it was the answer to
    route,                \* per tab: the route rendered
    applications,         \* per tab: DslrOfficerDashboard.applications
    selectedApplication,  \* per tab: <<>> (null) or <<application>>
    showComparisonModal,  \* per tab
    comparisonResults,    \* per tab, per method: session_id of the stored response, NoSession for null
    loadingComparison,    \* per tab, per method
    inflight,             \* per tab, per method: <<>> or <<request body of /api/compare>>
    recentApplications,   \* per tab: GeneralUserDashboard.recentApplications
    isModalOpen,          \* per tab: GeneralUserDashboard.isModalOpen
    customForm,           \* per tab: the state of CustomForm that the catalog requests set
    mapDashboard,         \* per tab: the state of MapComparisonDashboard
    apiCalls,             \* per tab, per apiService call: <<>> or <<the request awaiting its answer>>
    pdfRequest,           \* <<session id>> of the generate-pdf request the last handler sent, <<>> if none
    toast                 \* toast the last handler raised if it was an approve, a reject, the guard of
                          \* the officer's runComparison, the form's handleImageChange or a handler of
                          \* the map comparison dashboard, NoToast otherwise

vars == <<mapApplications, activityLogs, loggedInUser, now, nextSession, issuedFor, route,
          applications, selectedApplication, showComparisonModal,
          comparisonResults, loadingComparison, inflight, recentApplications,
          isModalOpen, customForm, mapDashboard, apiCalls, pdfRequest, toast>>

storeVars == <<mapApplications, activityLogs>>
officerVars == <<applications, selectedApplication, showComparisonModal,
                 comparisonResults, loadingComparison, inflight>>
generalVars == <<recentApplications, isModalOpen>>
mapVars == <<mapDashboard, apiCalls>>

\* ------------------------------------------------------------- helpers
NoToast == [kind |-> "none", msg |-> ""]
Toast(k, m) == [kind |-> k, msg |-> m]

NoResults == [m \in Methods |-> NoSession]
NotLoading == [m \in Methods |-> FALSE]
NoRequests == [m \in Methods |-> <<>>]

\* CustomForm's useState values that its requests and the village select set,
\* and surveyRequests: the villages whose survey-number request awaits its
\* answer. NoForm also stands for a form that is not rendered.
\* image is <<>> (null or undefined) or <<the size of the File held>>.
NoForm ==
    [villages |-> <<>>, loadingVillages |-> FALSE, village |-> "",
     surveyNumbers |-> <<>>, loadingSurveyNumbers |-> FALSE, surveyRequests |-> {},
     image |-> <<>>]
\* the form once its mount effect has started fetchVillages
MountedForm == [NoForm EXCEPT !.loadingVillages = TRUE]

\* MapComparisonDashboard's useState values (null is <<>>, a null or undefined
\* session id is NoSession)
InitialDashboard ==
    [villages |-> <<>>, selectedVillage |-> "", villageStructure |-> <<>>,
     chosenIndex |-> "", comparisonMethod |-> "standard", isLoading |-> FALSE,
     comparisonResults |-> <<>>, backendHealth |-> <<>>, sessionId |-> NoSession,
     isPdfGenerating |-> FALSE]

ApiCalls == {"checkHealth", "getVillages", "getVillageStructure", "runComparison",
             "generatePDF", "downloadPDF"}
NoCalls == [call \in ApiCalls |-> <<>>]

\* the backend's catalog: the villages it lists and their feature counts
FeatureCount == ("ambeli" :> 2) @@ ("antorieum" :> 1)

\* new Date().toISOString().split('T')[0]
DateOf(t) == t \div 86400000

\* the decimal digits of a number, as a template literal writes it
RECURSIVE Digits(_)
Digits(n) == IF n < 10 THEN <<n>> ELSE Append(Digits(n \div 10), n % 10)

\* `APP${timestamp}${random}`: the digits of timestamp followed by those of random
generateApplicationId(timestamp, random) == Digits(timestamp) \o Digits(random)

\* JSON.stringify of a File object yields {}; null stays null
StringifyImage(img) == IF img = Null THEN Null ELSE EmptyObject

\* the characters of the texts that the model's inputs use
Characters ==
    ("" :> <<>>) @@ ("0" :> <<"0">>) @@ ("1" :> <<"1">>) @@ ("2" :> <<"2">>)
    @@ ("7" :> <<"7">>) @@ ("-1" :> <<"-", "1">>) @@ ("abc" :> <<"a", "b", "c">>)

DecimalValue ==
    ("0" :> 0) @@ ("1" :> 1) @@ ("2" :> 2) @@ ("3" :> 3) @@ ("4" :> 4)
    @@ ("5" :> 5) @@ ("6" :> 6) @@ ("7" :> 7) @@ ("8" :> 8) @@ ("9" :> 9)

\* NaN: an integer that no text of Characters parses to; JSON.stringify sends it as null
NaN == -1000
isNaN(x) == x = NaN

\* the longest prefix of chars made of decimal digits
LeadingDigits(chars) ==
    LET n == CHOOSE n \in 0..Len(chars) :
                 /\ \A i \in 1..n : chars[i] \in DOMAIN DecimalValue
                 /\ (n = Len(chars) \/ chars[n + 1] \notin DOMAIN DecimalValue)
    IN SubSeq(chars, 1, n)

RECURSIVE ValueOf(_)
ValueOf(digits) ==
    IF digits = <<>> THEN 0
    ELSE 10 * ValueOf(SubSeq(digits, 1, Len(digits) - 1)) + DecimalValue[digits[Len(digits)]]

\* parseInt(s): an optional sign, then the leading decimal digits; NaN if there is none
ParseInt(s) ==
    LET chars == Characters[s]
        signed == chars # <<>> /\ chars[1] \in {"-", "+"}
        digits == LeadingDigits(IF signed THEN Tail(chars) ELSE chars)
    IN IF digits = <<>> THEN NaN
       ELSE IF signed /\ chars[1] = "-" THEN 0 - ValueOf(digits)
       ELSE ValueOf(digits)

Ids(list) == {list[k].id : k \in DOMAIN list}

\* applications.filter(...) with searchTerm "" and statusFilter 'all', then status filter
pendingApplications(t) ==
    {k \in DOMAIN applications[t] : applications[t][k].status = Pending}

\* ------------------------------------------------------------- initial state
Init ==
    /\ mapApplications = <<>>
    /\ activityLogs = <<>>
    /\ loggedInUser = Null
    /\ now = 0
    /\ nextSession = 0
    /\ issuedFor = <<>>
    /\ route = [t \in Tabs |-> "/"]
    /\ applications = [t \in Tabs |-> <<>>]
    /\ selectedApplication = [t \in Tabs |-> <<>>]
    /\ showComparisonModal = [t \in Tabs |-> FALSE]
    /\ comparisonResults = [t \in Tabs |-> NoResults]
    /\ loadingComparison = [t \in Tabs |-> NotLoading]
    /\ inflight = [t \in Tabs |-> NoRequests]
    /\ recentApplications = [t \in Tabs |-> <<>>]
    /\ isModalOpen = [t \in Tabs |-> FALSE]
    /\ customForm = [t \in Tabs |-> NoForm]
    /\ mapDashboard = [t \in Tabs |-> InitialDashboard]
    /\ apiCalls = [t \in Tabs |-> NoCalls]
    /\ pdfRequest = <<>>
    /\ toast = NoToast

\* ------------------------------------------------------------- officer dashboard
\* The comparison modal is an overlay: it neither unmounts nor disables the
\* pending table and the Refresh button beneath it, which stay in the tab
\* order, so their handlers have no guard on showComparisonModal.
\* applications.map(app => app.id === applicationId ? {...app, status} : app)
SetStatus(list, applicationId, status) ==
    [k \in DOMAIN list |->
        IF list[k].id = applicationId
        THEN [list[k] EXCEPT !.status = status]
        ELSE list[k]]

\* applications.map(app => app.id === id ? {...app, status, comparisonMethod, sessionId} : app)
BindMethod(list, applicationId, method, session) ==
    [k \in DOMAIN list |->
        IF list[k].id = applicationId
        THEN [list[k] EXCEPT !.status = Ready,
                             !.comparisonMethod = method,
                             !.sessionId = session]
        ELSE list[k]]

LogEntry(action, applicationId, method) ==
    [date |-> DateOf(now), action |-> action, id |-> applicationId, method |-> method]

\* the log rewritten to hold the new entry only
PushLogReplacing(logs, newLog) == <<newLog>>

\* logs.push(newLog)
PushLog(logs, newLog) == Append(logs, newLog)

\* body of loadApplications, reading the store as the handler leaves it
LoadApplications(t, stored) ==
    applications' = [applications EXCEPT ![t] = stored]

\* allApplications.filter(app => app.status === ...).length
Count(allApplications, statuses) ==
    Cardinality({k \in DOMAIN allApplications : allApplications[k].status \in statuses})

\* the approved counter counting the status 'Approved' only
approvedAppsNamedApproved(allApplications) == Count(allApplications, {"Approved"})

\* app.status === 'Approved' || app.status === 'Ready for Download'
approvedApps(allApplications) == Count(allApplications, {"Approved", Ready})

\* the values of the four counters that loadApplications sets
Stats(allApplications) ==
    [total |-> Len(allApplications),
     pending |-> Count(allApplications, {Pending}),
     approved |-> approvedApps(allApplications),
     rejected |-> Count(allApplications, {Rejected})]

\* DslrOfficerDashboard.stats: loadApplications sets it from the list that it
\* sets applications to
stats(t) == Stats(applications[t])

\* the Refresh button
Refresh(t) ==
    /\ route[t] = "/dslr"
    /\ LoadApplications(t, mapApplications)
    /\ toast' = NoToast
    /\ pdfRequest' = <<>>
    /\ UNCHANGED <<storeVars, loggedInUser, now, nextSession, issuedFor, route,
                   selectedApplication, showComparisonModal, comparisonResults,
                   loadingComparison, inflight, generalVars, customForm, mapVars>>

\* The two store writes of an approve/reject handler; out names the setItem that
\* throws QuotaExceededError ("ok": none).
WriteStore(updatedApplications, newLog, out) ==
    /\ mapApplications' = IF out = "apps" THEN mapApplications ELSE updatedApplications
    /\ activityLogs' = IF out = "ok" THEN PushLog(activityLogs, newLog) ELSE activityLogs

HandleApprove(t, k, out) ==
    /\ route[t] = "/dslr"
    /\ k \in pendingApplications(t)
    /\ Len(activityLogs) < MaxLogs
    /\ LET applicationId == applications[t][k].id
           updatedApplications == SetStatus(applications[t], applicationId, Ready)
       IN /\ WriteStore(updatedApplications, LogEntry("Approved", applicationId, ""), out)
          /\ IF out = "ok"
             THEN /\ LoadApplications(t, updatedApplications)
                  /\ toast' = Toast("success", "approved")
             ELSE /\ UNCHANGED applications
                  /\ toast' = NoToast
    /\ pdfRequest' = <<>>
    /\ UNCHANGED <<loggedInUser, now, nextSession, issuedFor, route, selectedApplication,
                   showComparisonModal, comparisonResults, loadingComparison,
                   inflight, generalVars, customForm, mapVars>>

HandleReject(t, k, out) ==
    /\ route[t] = "/dslr"
    /\ k \in pendingApplications(t)
    /\ Len(activityLogs) < MaxLogs
    /\ LET applicationId == applications[t][k].id
           updatedApplications == SetStatus(applications[t], applicationId, Rejected)
       IN /\ WriteStore(updatedApplications, LogEntry("Rejected", applicationId, ""), out)
          /\ IF out = "ok"
             THEN /\ LoadApplications(t, updatedApplications)
                  /\ toast' = Toast("error", "rejected")
             ELSE /\ UNCHANGED applications
                  /\ toast' = NoToast
    /\ pdfRequest' = <<>>
    /\ UNCHANGED <<loggedInUser, now, nextSession, issuedFor, route, selectedApplication,
                   showComparisonModal, comparisonResults, loadingComparison,
                   inflight, generalVars, customForm, mapVars>>

HandleViewDetails(t, k) ==
    /\ route[t] = "/dslr"
    /\ k \in pendingApplications(t)
    /\ selectedApplication' = [selectedApplication EXCEPT ![t] = <<applications[t][k]>>]
    /\ showComparisonModal' = [showComparisonModal EXCEPT ![t] = TRUE]
    /\ comparisonResults' = [comparisonResults EXCEPT ![t] = NoResults]
    /\ toast' = NoToast
    /\ pdfRequest' = <<>>
    /\ UNCHANGED <<storeVars, loggedInUser, now, nextSession, issuedFor, route, applications,
                   loadingComparison, inflight, generalVars, customForm, mapVars>>

\* the modal's close button: setShowComparisonModal(false)
CloseComparisonModal(t) ==
    /\ route[t] = "/dslr"
    /\ showComparisonModal[t]
    /\ selectedApplication[t] # <<>>
    /\ showComparisonModal' = [showComparisonModal EXCEPT ![t] = FALSE]
    /\ toast' = NoToast
    /\ pdfRequest' = <<>>
    /\ UNCHANGED <<storeVars, loggedInUser, now, nextSession, issuedFor, route, applications,
                   selectedApplication, comparisonResults, loadingComparison,
                   inflight, generalVars, customForm, mapVars>>

\* runComparison up to its await: the guard, the loading flag and the request
RunComparison(t, method) ==
    /\ route[t] = "/dslr"
    /\ showComparisonModal[t]
    /\ selectedApplication[t] # <<>>
    /\ ~loadingComparison[t][method]
    /\ LET app == selectedApplication[t][1]
       IN IF app.surveyNumber \in {Null, ""}
          THEN /\ toast' = Toast("error", "Survey number is required for comparison")
               /\ UNCHANGED <<loadingComparison, inflight>>
          ELSE /\ loadingComparison' = [loadingComparison EXCEPT ![t][method] = TRUE]
               /\ inflight' = [inflight EXCEPT ![t][method] =
                     <<[village_name |-> app.village,
                        chosen_index |-> ParseInt(app.surveyNumber),
                        comparison_method |-> method]>>]
               /\ toast' = NoToast
    /\ pdfRequest' = <<>>
    /\ UNCHANGED <<storeVars, loggedInUser, now, nextSession, issuedFor, route, applications,
                   selectedApplication, showComparisonModal, comparisonResults,
                   generalVars, customForm, mapVars>>

\* the parcel that a /compare request names
Query(request) == [village_name |-> request.village_name, chosen_index |-> request.chosen_index]

\* the backend's answer to /api/compare: a fresh session on success
CompareOutcomes == {"success", "failure", "error"}

\* runComparison after its await: data.success, the catch and the finally
CompareResponse(t, method, outcome) ==
    /\ route[t] = "/dslr"
    /\ inflight[t][method] # <<>>
    /\ IF outcome = "success"
       THEN /\ nextSession < MaxSessions
            /\ nextSession' = nextSession + 1
            /\ issuedFor' = Append(issuedFor, Query(inflight[t][method][1]))
            /\ comparisonResults' = [comparisonResults EXCEPT ![t][method] = nextSession + 1]
            /\ toast' = NoToast
       ELSE /\ UNCHANGED <<nextSession, issuedFor, comparisonResults>>
            /\ toast' = NoToast
    /\ loadingComparison' = [loadingComparison EXCEPT ![t][method] = FALSE]
    /\ inflight' = [inflight EXCEPT ![t][method] = <<>>]
    /\ pdfRequest' = <<>>
    /\ UNCHANGED <<storeVars, loggedInUser, now, route, applications,
                   selectedApplication, showComparisonModal, generalVars, customForm, mapVars>>

HandleApproveMethod(t, method, out) ==
    /\ route[t] = "/dslr"
    /\ showComparisonModal[t]
    /\ selectedApplication[t] # <<>>
    /\ comparisonResults[t][method] # NoSession
    /\ Len(activityLogs) < MaxLogs
    /\ LET applicationId == selectedApplication[t][1].id
           updatedApplications ==
               BindMethod(applications[t], applicationId, method, comparisonResults[t][method])
       IN /\ WriteStore(updatedApplications, LogEntry("Approved", applicationId, method), out)
          /\ IF out = "ok"
             THEN /\ LoadApplications(t, updatedApplications)
                  /\ showComparisonModal' = [showComparisonModal EXCEPT ![t] = FALSE]
                  /\ toast' = Toast("success", "approved with method")
             ELSE /\ UNCHANGED <<applications, showComparisonModal>>
                  /\ toast' = Toast("error", "Failed to approve application")
    /\ pdfRequest' = <<>>
    /\ UNCHANGED <<loggedInUser, now, nextSession, issuedFor, route, selectedApplication,
                   comparisonResults, loadingComparison, inflight, generalVars, customForm, mapVars>>

\* handleDownloadPreview up to its first await: POST /api/generate-pdf/${session_id}
\* (the button is rendered with the method's stored result)
HandleDownloadPreview(t, method) ==
    /\ route[t] = "/dslr"
    /\ showComparisonModal[t]
    /\ selectedApplication[t] # <<>>
    /\ comparisonResults[t][method] # NoSession
    /\ pdfRequest' = <<comparisonResults[t][method]>>
    /\ toast' = NoToast
    /\ UNCHANGED <<storeVars, loggedInUser, now, nextSession, issuedFor, route, officerVars,
                   generalVars, customForm, mapVars>>

\* ------------------------------------------------------------- routes and login
\* A route's component mounts with its initial state; the officer and the
\* applicant dashboards run loadApplications in their mount effect.
Mount(t, r) ==
    /\ route' = [route EXCEPT ![t] = r]
    /\ applications' = [applications EXCEPT ![t] =
           IF r = "/dslr" THEN mapApplications ELSE <<>>]
    /\ selectedApplication' = [selectedApplication EXCEPT ![t] = <<>>]
    /\ showComparisonModal' = [showComparisonModal EXCEPT ![t] = FALSE]
    /\ comparisonResults' = [comparisonResults EXCEPT ![t] = NoResults]
    /\ loadingComparison' = [loadingComparison EXCEPT ![t] = NotLoading]
    /\ inflight' = [inflight EXCEPT ![t] = NoRequests]
    /\ recentApplications' = [recentApplications EXCEPT ![t] =
           IF r = "/general" THEN mapApplications ELSE <<>>]
    /\ isModalOpen' = [isModalOpen EXCEPT ![t] = FALSE]
    /\ customForm' = [customForm EXCEPT ![t] = IF r = "/form" THEN MountedForm ELSE NoForm]
    /\ mapDashboard' = [mapDashboard EXCEPT ![t] = InitialDashboard]
    /\ apiCalls' = [apiCalls EXCEPT ![t] =
           IF r = "/map-comparison"
           THEN [NoCalls EXCEPT !["checkHealth"] = <<"/health">>]
           ELSE NoCalls]

\* <Route path=... element=...>: every route renders its component unconditionally
Navigate(t, r) ==
    /\ r \in Routes
    /\ Mount(t, r)
    /\ toast' = NoToast
    /\ pdfRequest' = <<>>
    /\ UNCHANGED <<storeVars, loggedInUser, now, nextSession, issuedFor>>

\* navigate(...) by user.role
RoleRoute(role) ==
    CASE role = "admin" -> "/admin"
      [] role = "general" -> "/general"
      [] role = "dslr" -> "/dslr"
      [] OTHER -> "/"

\* handleLogin with the credentials of user (a role of users.json) or of nobody
HandleLogin(t, user) ==
    /\ route[t] = "/"
    /\ IF user \in Users
       THEN /\ loggedInUser' = user
            /\ Mount(t, RoleRoute(user))
            /\ toast' = NoToast
       ELSE /\ toast' = NoToast
            /\ UNCHANGED <<loggedInUser, route, officerVars, generalVars, customForm, mapVars>>
    /\ pdfRequest' = <<>>
    /\ UNCHANGED <<storeVars, now, nextSession, issuedFor>>

\* ------------------------------------------------------------- applicant dashboard and form
OpenFormModal(t) ==
    /\ route[t] = "/general"
    /\ ~isModalOpen[t]
    /\ isModalOpen' = [isModalOpen EXCEPT ![t] = TRUE]
    /\ customForm' = [customForm EXCEPT ![t] = MountedForm]
    /\ toast' = NoToast
    /\ pdfRequest' = <<>>
    /\ UNCHANGED <<storeVars, loggedInUser, now, nextSession, issuedFor, route, officerVars,
                   recentApplications, mapVars>>

\* setIsModalOpen(false) and the effect on isModalOpen: loadApplications
CloseFormModal(t) ==
    /\ route[t] = "/general"
    /\ isModalOpen[t]
    /\ isModalOpen' = [isModalOpen EXCEPT ![t] = FALSE]
    /\ recentApplications' = [recentApplications EXCEPT ![t] = mapApplications]
    /\ customForm' = [customForm EXCEPT ![t] = NoForm]
    /\ toast' = NoToast
    /\ pdfRequest' = <<>>
    /\ UNCHANGED <<storeVars, loggedInUser, now, nextSession, issuedFor, route, officerVars, mapVars>>

\* the form is rendered at /form and inside the applicant dashboard's modal
FormShown(t) == route[t] = "/form" \/ (route[t] = "/general" /\ isModalOpen[t])

\* the villages fetchVillages falls back to
FallbackVillages == <<"ambeli", "antorieum", "latambarcem">>

\* what the fetch of /api/villages ends with: a 2xx body with success = true
\* and the backend's villages, a 2xx body with success = false, a status that
\* is not ok, or a rejected fetch
FetchOutcomes == {"success", "failure", "status", "error"}

\* the village ids of a successful list answer
ListedVillages == <<"ambeli", "antorieum">>

\* fetchVillages after its await: every failure ends in the catch block,
\* which logs to the console and sets the hardcoded villages
FetchVillagesAnswer(t, outcome) ==
    /\ FormShown(t)
    /\ customForm[t].loadingVillages
    /\ customForm' = [customForm EXCEPT
           ![t].villages = IF outcome = "success" THEN ListedVillages ELSE FallbackVillages,
           ![t].loadingVillages = FALSE]
    /\ toast' = NoToast
    /\ pdfRequest' = <<>>
    /\ UNCHANGED <<storeVars, loggedInUser, now, nextSession, issuedFor, route, officerVars,
                   generalVars, mapVars>>

\* the values of the village select: its empty option and the villages loaded
VillageOptions(t) ==
    {""} \cup {customForm[t].villages[i] : i \in DOMAIN customForm[t].villages}

\* the backend's answer to /village/<name>/survey-numbers: one entry per feature
RECURSIVE Features(_)
Features(n) == IF n = 0 THEN <<>> ELSE Append(Features(n - 1), [index |-> n - 1])

SurveyNumbersOf(villageName) == Features(FeatureCount[villageName])

\* CustomForm.handleVillageChange and the effect on village: the select (disabled
\* while the villages load) sets village, and a village other than '' starts
\* fetchSurveyNumbers, which sets loadingSurveyNumbers and keeps the list
\* shown until its answer; '' empties the list. At most one request per
\* village awaits its answer. (The handler's last statement calls setErrors,
\* which the component does not declare: the ReferenceError is thrown after
\* both state updates were queued.)
FormHandleVillageChange(t, villageName) ==
    /\ FormShown(t)
    /\ ~customForm[t].loadingVillages
    /\ villageName \in VillageOptions(t)
    /\ villageName # customForm[t].village
    /\ villageName \notin customForm[t].surveyRequests
    /\ customForm' = [customForm EXCEPT ![t] =
           IF villageName = ""
           THEN [@ EXCEPT !.village = "", !.surveyNumbers = <<>>]
           ELSE [@ EXCEPT !.village = villageName,
                          !.loadingSurveyNumbers = TRUE,
                          !.surveyRequests = @ \cup {villageName}]]
    /\ toast' = NoToast
    /\ pdfRequest' = <<>>
    /\ UNCHANGED <<storeVars, loggedInUser, now, nextSession, issuedFor, route, officerVars,
                   generalVars, mapVars>>

\* fetchSurveyNumbers after its await, for the request that named villageName:
\* the list of a successful answer or [], then the finally block
SurveyNumbersAnswer(t, villageName, outcome) ==
    /\ FormShown(t)
    /\ villageName \in customForm[t].surveyRequests
    /\ outcome = "success" => villageName \in DOMAIN FeatureCount
    /\ customForm' = [customForm EXCEPT
           ![t].surveyNumbers = IF outcome = "success" THEN SurveyNumbersOf(villageName)
                                ELSE <<>>,
           ![t].loadingSurveyNumbers = FALSE,
           ![t].surveyRequests = @ \ {villageName}]
    /\ toast' = NoToast
    /\ pdfRequest' = <<>>
    /\ UNCHANGED <<storeVars, loggedInUser, now, nextSession, issuedFor, route, officerVars,
                   generalVars, mapVars>>

\* the size check that accepts files of up to twice the limit
TooLargeAboveDouble(file) == file # <<>> /\ file[1] > 2 * MaxImageSize

\* file && file.size > 5 * 1024 * 1024
TooLarge(file) == file # <<>> /\ file[1] > MaxImageSize

\* CustomForm.handleImageChange with e.target.files[0] = file
HandleImageChange(t, file) ==
    /\ FormShown(t)
    /\ IF TooLarge(file)
       THEN /\ toast' = Toast("error", "File size should be less than 5MB")
            /\ UNCHANGED customForm
       ELSE /\ customForm' = [customForm EXCEPT ![t].image = file]
            /\ toast' = NoToast
    /\ pdfRequest' = <<>>
    /\ UNCHANGED <<storeVars, loggedInUser, now, nextSession, issuedFor, route, officerVars,
                   generalVars, mapVars>>

\* the image that handleSubmit reads from the form's state
HeldImage(t) == IF customForm[t].image = <<>> THEN Null ELSE File

\* the record built with both locators as the form holds them
applicationDataKeepingBoth(applicationId, direction, village, inputType, surveyNumber, image, date) ==
    [id |-> applicationId,
     direction |-> direction,
     village |-> village,
     surveyNumber |-> surveyNumber,
     image |-> StringifyImage(image),
     submissionDate |-> date,
     status |-> Pending,
     type |-> "Map Comparison Certificate",
     comparisonMethod |-> Undefined,
     sessionId |-> NoSession]

\* the record handleSubmit builds, as JSON.stringify stores it
applicationData(applicationId, direction, village, inputType, surveyNumber, image, date) ==
    [id |-> applicationId,
     direction |-> direction,
     village |-> village,
     surveyNumber |-> IF inputType = "survey" THEN surveyNumber ELSE Null,
     image |-> IF inputType = "image" THEN StringifyImage(image) ELSE Null,
     submissionDate |-> date,
     status |-> Pending,
     type |-> "Map Comparison Certificate",
     comparisonMethod |-> Undefined,
     sessionId |-> NoSession]

\* existingApplications.push(applicationData)
PushApplication(existingApplications, app) == Append(existingApplications, app)

HandleSubmit(t, direction, village, inputType, surveyNumber, image, timestamp, random, out) ==
    /\ FormShown(t)
    /\ village = customForm[t].village
    /\ image = HeldImage(t)
    /\ timestamp >= now
    /\ IF direction = "" \/ village = ""
       THEN /\ toast' = NoToast
            /\ UNCHANGED <<mapApplications, now, customForm>>
       ELSE IF inputType = "survey" /\ surveyNumber = ""
       THEN /\ toast' = NoToast
            /\ UNCHANGED <<mapApplications, now, customForm>>
       ELSE IF inputType = "image" /\ image = Null
       THEN /\ toast' = NoToast
            /\ UNCHANGED <<mapApplications, now, customForm>>
       ELSE /\ now' = timestamp
            /\ IF out = "ok"
               THEN /\ mapApplications' = PushApplication(mapApplications,
                          applicationData(generateApplicationId(timestamp, random),
                                          direction, village, inputType, surveyNumber,
                                          image, DateOf(timestamp)))
                    /\ customForm' = [customForm EXCEPT ![t].village = "",
                                                           ![t].surveyNumbers = <<>>,
                                                           ![t].image = <<>>]
                    /\ toast' = NoToast
               ELSE /\ UNCHANGED <<mapApplications, customForm>>
                    /\ toast' = NoToast
    /\ pdfRequest' = <<>>
    /\ UNCHANGED <<activityLogs, loggedInUser, nextSession, issuedFor, route, officerVars,
                   generalVars, mapVars>>

\* the rows of the applicant dashboard that offer Download PDF
downloadable(t) ==
    {k \in DOMAIN recentApplications[t] : recentApplications[t][k].status = Ready}

\* handleDownloadPDF: POST /api/generate-pdf/${application.sessionId}
HandleDownloadPDF(t, k) ==
    /\ route[t] = "/general"
    /\ k \in downloadable(t)
    /\ pdfRequest' = <<recentApplications[t][k].sessionId>>
    /\ toast' = NoToast
    /\ UNCHANGED <<storeVars, loggedInUser, now, nextSession, issuedFor, route, officerVars, generalVars, customForm, mapVars>>

\* ------------------------------------------------------------- apiService
\* What the backend or the network does with a request of the axios instance:
\* a 2xx answer with a body, an error status with {error: m}, no answer
\* (network error), or none within the instance's timeout.
ErrorTexts == {"Index out of range"}
Failures ==
    {[kind |-> "status", status |-> st, error |-> m] : st \in {400, 500}, m \in ErrorTexts}
    \cup {[kind |-> "network"], [kind |-> "timeout"]}
Ok(body) == [kind |-> "ok", data |-> body]

StatusText == (400 :> "400") @@ (500 :> "500")

\* the error axios rejects with; a message is the sequence of its pieces
AxiosError(answer) ==
    CASE answer.kind = "status" ->
             [message |-> <<"Request failed with status code ", StatusText[answer.status]>>,
              response |-> <<[status |-> answer.status, data |-> [error |-> answer.error]]>>,
              request |-> TRUE]
      [] answer.kind = "network" ->
             [message |-> <<"Network Error">>, response |-> <<>>, request |-> TRUE]
      [] answer.kind = "timeout" ->
             [message |-> <<"timeout of 30000ms exceeded">>, response |-> <<>>, request |-> TRUE]

\* new Error(message): an error with neither response nor request
Error(message) == [message |-> message, response |-> <<>>, request |-> FALSE]

Prefix ==
    ("checkHealth" :> "Health check failed: ")
    @@ ("getVillages" :> "Failed to fetch villages: ")
    @@ ("getVillageStructure" :> "Failed to fetch village structure: ")
    @@ ("runComparison" :> "Comparison failed: ")
    @@ ("generatePDF" :> "PDF generation failed: ")
    @@ ("downloadPDF" :> "PDF download failed: ")

\* the catch block of the apiService function call: what it throws for error
Rethrown(call, error) ==
    IF /\ call \in {"runComparison", "generatePDF"}
       /\ error.response # <<>>
       /\ error.response[1].data.error # ""
    THEN Error(<<error.response[1].data.error>>)
    ELSE Error(<<Prefix[call]>> \o error.message)

handleApiError(error) ==
    IF error.response # <<>>
    THEN [status |-> error.response[1].status,
          message |-> IF error.response[1].data.error # ""
                      THEN <<error.response[1].data.error>>
                      ELSE <<"An error occurred">>]
    ELSE IF error.request
    THEN [status |-> 0,
          message |-> <<"No response from server. Please check if the backend is running.">>]
    ELSE [status |-> 0 - 1,
          message |-> IF error.message # <<>> THEN error.message
                      ELSE <<"Unknown error occurred">>]

\* the catch blocks of MapComparisonDashboard: toast.error(handleApiError(error).message)
ErrorToast(call, answer) ==
    Toast("error", handleApiError(Rethrown(call, AxiosError(answer))).message)

\* ------------------------------------------------------------- map comparison dashboard
HealthBodies ==
    {[success |-> TRUE, advanced_comparison_available |-> a, pdf_generation_available |-> g] :
        a \in BOOLEAN, g \in BOOLEAN}
    \cup {[success |-> FALSE, advanced_comparison_available |-> FALSE,
           pdf_generation_available |-> FALSE]}

\* villagesData.villages || []
VillageLists == {<<"ambeli", "antorieum">>, <<>>}

\* what the number input hands to setChosenIndex
IndexInputs == {"", "0", "1", "2", "-1"}

\* results of a /compare answer, each with the rank the backend gave it
ResultLists == {<<>>, <<[rank |-> 1], [rank |-> 2]>>, <<[rank |-> 2], [rank |-> 2]>>}

\* 2xx bodies of /compare: a session with its results, or success = false
\* with an empty result list or without one (results is <<list>>, <<>> if absent)
CompareBodies(session) ==
    {[success |-> TRUE, session_id |-> session, best_match_found |-> b, results |-> <<list>>] :
        b \in BOOLEAN, list \in ResultLists}
    \cup {[success |-> FALSE, session_id |-> NoSession, best_match_found |-> FALSE,
           results |-> r, error |-> m] : r \in {<<>>, << <<>> >>}, m \in ErrorTexts}

PdfBodies == {[success |-> TRUE, pdf_filename |-> "report.pdf"],
              [success |-> FALSE, pdf_filename |-> Undefined]}

\* the page after a render threw: React unmounts the tree
Blank == "blank"

Dashboard(t) == mapDashboard[t]
Calling(t, call) == apiCalls[t][call] # <<>>

\* loadInitialData after `await apiService.checkHealth()`
CheckHealthAnswer(t, answer) ==
    /\ route[t] = "/map-comparison"
    /\ Calling(t, "checkHealth")
    /\ IF answer.kind = "ok"
       THEN /\ mapDashboard' = [mapDashboard EXCEPT ![t].backendHealth = <<answer.data>>]
            /\ apiCalls' = [apiCalls EXCEPT ![t]["checkHealth"] = <<>>,
                               ![t]["getVillages"] =
                                   IF answer.data.success THEN <<"/villages">> ELSE <<>>]
            /\ toast' = NoToast
       ELSE /\ apiCalls' = [apiCalls EXCEPT ![t]["checkHealth"] = <<>>]
            /\ toast' = ErrorToast("checkHealth", answer)
            /\ UNCHANGED mapDashboard
    /\ pdfRequest' = <<>>
    /\ UNCHANGED <<storeVars, loggedInUser, now, nextSession, issuedFor, route, officerVars,
                   generalVars, customForm>>

\* loadInitialData after `await apiService.getVillages()`
GetVillagesAnswer(t, answer) ==
    /\ route[t] = "/map-comparison"
    /\ Calling(t, "getVillages")
    /\ IF answer.kind = "ok"
       THEN /\ mapDashboard' = [mapDashboard EXCEPT ![t].villages = answer.data]
            /\ toast' = Toast("success", <<"Backend connected successfully!">>)
       ELSE /\ toast' = ErrorToast("getVillages", answer)
            /\ UNCHANGED mapDashboard
    /\ apiCalls' = [apiCalls EXCEPT ![t]["getVillages"] = <<>>]
    /\ pdfRequest' = <<>>
    /\ UNCHANGED <<storeVars, loggedInUser, now, nextSession, issuedFor, route, officerVars,
                   generalVars, customForm>>

\* MapComparisonDashboard.handleVillageChange up to its await
HandleVillageChange(t, villageName) ==
    /\ route[t] = "/map-comparison"
    /\ ~Dashboard(t).isLoading
    /\ villageName = "" \/ \E i \in DOMAIN Dashboard(t).villages : Dashboard(t).villages[i] = villageName
    /\ mapDashboard' = [mapDashboard EXCEPT ![t].selectedVillage = villageName,
                                               ![t].villageStructure = <<>>,
                                               ![t].comparisonResults = <<>>,
                                               ![t].chosenIndex = "",
                                               ![t].isLoading = (villageName # "")]
    /\ apiCalls' = [apiCalls EXCEPT ![t]["getVillageStructure"] =
                       IF villageName # "" THEN <<villageName>> ELSE <<>>]
    /\ toast' = NoToast
    /\ pdfRequest' = <<>>
    /\ UNCHANGED <<storeVars, loggedInUser, now, nextSession, issuedFor, route, officerVars,
                   generalVars, customForm>>

\* the 2xx body of /village/<name>/structure
StructureBody(villageName) == [num_features |-> FeatureCount[villageName]]

\* handleVillageChange after `await apiService.getVillageStructure(villageName)`
GetVillageStructureAnswer(t, answer) ==
    /\ route[t] = "/map-comparison"
    /\ Calling(t, "getVillageStructure")
    /\ IF answer.kind = "ok"
       THEN /\ mapDashboard' = [mapDashboard EXCEPT ![t].villageStructure = <<answer.data>>,
                                                       ![t].isLoading = FALSE]
            /\ toast' = Toast("success", <<"Loaded ", apiCalls[t]["getVillageStructure"][1],
                                           " structure">>)
       ELSE /\ mapDashboard' = [mapDashboard EXCEPT ![t].isLoading = FALSE]
            /\ toast' = ErrorToast("getVillageStructure", answer)
    /\ apiCalls' = [apiCalls EXCEPT ![t]["getVillageStructure"] = <<>>]
    /\ pdfRequest' = <<>>
    /\ UNCHANGED <<storeVars, loggedInUser, now, nextSession, issuedFor, route, officerVars,
                   generalVars, customForm>>

\* onChange of the index input (disabled without a village and while loading)
SetChosenIndex(t, text) ==
    /\ route[t] = "/map-comparison"
    /\ Dashboard(t).selectedVillage # ""
    /\ ~Dashboard(t).isLoading
    /\ mapDashboard' = [mapDashboard EXCEPT ![t].chosenIndex = text]
    /\ toast' = NoToast
    /\ pdfRequest' = <<>>
    /\ UNCHANGED <<storeVars, loggedInUser, now, nextSession, issuedFor, route, officerVars,
                   generalVars, customForm, apiCalls>>

\* the options of the method select that are not disabled
EnabledMethods(t) ==
    {"standard"} \cup
    {m \in {"advanced"} : /\ Dashboard(t).backendHealth # <<>>
                          /\ Dashboard(t).backendHealth[1].advanced_comparison_available}

\* onChange of the method select (disabled while loading)
SetComparisonMethod(t, method) ==
    /\ route[t] = "/map-comparison"
    /\ ~Dashboard(t).isLoading
    /\ method \in EnabledMethods(t)
    /\ mapDashboard' = [mapDashboard EXCEPT ![t].comparisonMethod = method]
    /\ toast' = NoToast
    /\ pdfRequest' = <<>>
    /\ UNCHANGED <<storeVars, loggedInUser, now, nextSession, issuedFor, route, officerVars,
                   generalVars, customForm, apiCalls>>

\* `${villageStructure?.num_features - 1 || 'N/A'}`: 0 and NaN are falsy
UpperBoundText(villageStructure) ==
    IF villageStructure = <<>> THEN "N/A"
    ELSE IF villageStructure[1].num_features - 1 = 0 THEN "N/A"
    ELSE ToString(villageStructure[1].num_features - 1)

IndexMessage(villageStructure) ==
    <<"Index must be between 0 and ", UpperBoundText(villageStructure)>>

\* the second guard of MapComparisonDashboard.runComparison
IndexRejected(indexNum, villageStructure) ==
    \/ isNaN(indexNum)
    \/ indexNum < 0
    \/ (villageStructure # <<>> /\ indexNum >= villageStructure[1].num_features)

\* MapComparisonDashboard.runComparison up to its await (the Run button is
\* disabled without a village, without an index and while loading)
MapRunComparison(t) ==
    /\ route[t] = "/map-comparison"
    /\ Dashboard(t).selectedVillage # ""
    /\ Dashboard(t).chosenIndex # ""
    /\ ~Dashboard(t).isLoading
    /\ LET indexNum == ParseInt(Dashboard(t).chosenIndex)
       IN IF IndexRejected(indexNum, Dashboard(t).villageStructure)
          THEN /\ toast' = Toast("error", IndexMessage(Dashboard(t).villageStructure))
               /\ UNCHANGED <<mapDashboard, apiCalls>>
          ELSE /\ mapDashboard' = [mapDashboard EXCEPT ![t].isLoading = TRUE,
                                                          ![t].comparisonResults = <<>>]
               /\ apiCalls' = [apiCalls EXCEPT ![t]["runComparison"] =
                      <<[village_name |-> Dashboard(t).selectedVillage,
                         chosen_index |-> indexNum,
                         comparison_method |-> Dashboard(t).comparisonMethod]>>]
               /\ toast' = NoToast
    /\ pdfRequest' = <<>>
    /\ UNCHANGED <<storeVars, loggedInUser, now, nextSession, issuedFor, route, officerVars,
                   generalVars, customForm>>

\* toast.warning(...): react-hot-toast documents no warning method; where the
\* installed version lacks it the call throws a TypeError into the catch block
WarningToasts ==
    {Toast("warning", <<"Comparison completed but no good matches found">>),
     Toast("error", handleApiError(Error(<<"toast.warning is not a function">>)).message)}

\* the answer stored as comparisonResults with sessionId left as it was
StoreResultsOnly(dashboard, results) ==
    [dashboard EXCEPT !.comparisonResults = <<results>>]

\* setComparisonResults(results); setSessionId(results.session_id)
StoreResults(dashboard, results) ==
    [dashboard EXCEPT !.comparisonResults = <<results>>,
                      !.sessionId = results.session_id]

\* MapComparisonDashboard.runComparison after its await; the results table
\* maps over comparisonResults.results, so a stored body without results
\* makes the next render throw
MapCompareAnswer(t, answer) ==
    /\ route[t] = "/map-comparison"
    /\ Calling(t, "runComparison")
    /\ IF answer.kind = "ok"
       THEN /\ answer.data.success => nextSession < MaxSessions
            /\ mapDashboard' = [mapDashboard EXCEPT
                   ![t] = [StoreResults(@, answer.data) EXCEPT !.isLoading = FALSE]]
            /\ nextSession' = IF answer.data.success THEN nextSession + 1 ELSE nextSession
            /\ issuedFor' = IF answer.data.success
                            THEN Append(issuedFor, Query(apiCalls[t]["runComparison"][1]))
                            ELSE issuedFor
            /\ IF answer.data.best_match_found
               THEN toast' = Toast("success", <<"Comparison completed successfully!">>)
               ELSE toast' \in WarningToasts
            /\ route' = [route EXCEPT ![t] = IF answer.data.results = <<>> THEN Blank ELSE @]
       ELSE /\ mapDashboard' = [mapDashboard EXCEPT ![t].isLoading = FALSE]
            /\ toast' = ErrorToast("runComparison", answer)
            /\ UNCHANGED <<nextSession, issuedFor, route>>
    /\ apiCalls' = [apiCalls EXCEPT ![t]["runComparison"] = <<>>]
    /\ pdfRequest' = <<>>
    /\ UNCHANGED <<storeVars, loggedInUser, now, officerVars, generalVars, customForm>>

\* the rank column shows the rank that the answer gave the result
ResultsTableByRank(results) ==
    [i \in 1..Len(results) |-> [rank |-> results[i].rank, result |-> results[i]]]

\* comparisonResults.results.map((result, index) => <tr>...{index + 1}...): the
\* rows of the results table, index counting from 0
ResultsTable(results) ==
    [i \in 1..Len(results) |-> [rank |-> (i - 1) + 1, result |-> results[i]]]

\* the score columns of the results table: comparisonMethod === 'standard' ?
\* (IoU Score, Hausdorff Distance, Transform) : (VGG Similarity)
ScoreColumns(comparisonMethod) ==
    IF comparisonMethod = "standard"
    THEN <<"IoU Score", "Hausdorff Distance", "Transform">>
    ELSE <<"VGG Similarity">>

\* the Generate PDF button is rendered for a best match when the health check
\* reported pdf_generation_available
GeneratePdfShown(t) ==
    /\ Dashboard(t).comparisonResults # <<>>
    /\ Dashboard(t).comparisonResults[1].best_match_found
    /\ Dashboard(t).backendHealth # <<>>
    /\ Dashboard(t).backendHealth[1].pdf_generation_available

\* MapComparisonDashboard.generatePDF up to its await
GeneratePDF(t) ==
    /\ route[t] = "/map-comparison"
    /\ GeneratePdfShown(t)
    /\ ~Dashboard(t).isPdfGenerating
    /\ IF Dashboard(t).sessionId = NoSession
       THEN /\ toast' = Toast("error", <<"No comparison session available">>)
            /\ pdfRequest' = <<>>
            /\ UNCHANGED <<mapDashboard, apiCalls>>
       ELSE /\ mapDashboard' = [mapDashboard EXCEPT ![t].isPdfGenerating = TRUE]
            /\ apiCalls' = [apiCalls EXCEPT ![t]["generatePDF"] = <<Dashboard(t).sessionId>>]
            /\ pdfRequest' = <<Dashboard(t).sessionId>>
            /\ toast' = NoToast
    /\ UNCHANGED <<storeVars, loggedInUser, now, nextSession, issuedFor, route, officerVars,
                   generalVars, customForm>>

\* generatePDF after `await apiService.generatePDF(sessionId)`
GeneratePdfAnswer(t, answer) ==
    /\ route[t] = "/map-comparison"
    /\ Calling(t, "generatePDF")
    /\ IF answer.kind = "ok" /\ answer.data.success
       THEN /\ apiCalls' = [apiCalls EXCEPT ![t]["generatePDF"] = <<>>,
                                              ![t]["downloadPDF"] = <<answer.data.pdf_filename>>]
            /\ toast' = Toast("success", <<"PDF generated successfully!">>)
            /\ UNCHANGED mapDashboard
       ELSE /\ apiCalls' = [apiCalls EXCEPT ![t]["generatePDF"] = <<>>]
            /\ mapDashboard' = [mapDashboard EXCEPT ![t].isPdfGenerating = FALSE]
            /\ toast' = IF answer.kind = "ok" THEN NoToast ELSE ErrorToast("generatePDF", answer)
    /\ pdfRequest' = <<>>
    /\ UNCHANGED <<storeVars, loggedInUser, now, nextSession, issuedFor, route, officerVars,
                   generalVars, customForm>>

\* generatePDF after `await apiService.downloadPDF(pdfData.pdf_filename)`
DownloadPdfAnswer(t, answer) ==
    /\ route[t] = "/map-comparison"
    /\ Calling(t, "downloadPDF")
    /\ apiCalls' = [apiCalls EXCEPT ![t]["downloadPDF"] = <<>>]
    /\ mapDashboard' = [mapDashboard EXCEPT ![t].isPdfGenerating = FALSE]
    /\ toast' = IF answer.kind = "ok" THEN NoToast ELSE ErrorToast("downloadPDF", answer)
    /\ pdfRequest' = <<>>
    /\ UNCHANGED <<storeVars, loggedInUser, now, nextSession, issuedFor, route, officerVars,
                   generalVars, customForm>>

\* the 2xx bodies the backend can answer a pending call of tab t with
OkBodies(t, call) ==
    CASE call = "checkHealth" -> HealthBodies
      [] call = "getVillages" -> VillageLists
      [] call = "getVillageStructure" ->
             IF Calling(t, call) THEN {StructureBody(apiCalls[t][call][1])} ELSE {}
      [] call = "runComparison" -> CompareBodies(nextSession + 1)
      [] call = "generatePDF" -> PdfBodies
      [] call = "downloadPDF" -> {EmptyObject}

\* the answers a pending call of tab t can get
Answers(t, call) == Failures \cup {Ok(body) : body \in OkBodies(t, call)}

\* the continuation of the call that got the answer
ApiAnswer(t, call, answer) ==
    CASE call = "checkHealth" -> CheckHealthAnswer(t, answer)
      [] call = "getVillages" -> GetVillagesAnswer(t, answer)
      [] call = "getVillageStructure" -> GetVillageStructureAnswer(t, answer)
      [] call = "runComparison" -> MapCompareAnswer(t, answer)
      [] call = "generatePDF" -> GeneratePdfAnswer(t, answer)
      [] call = "downloadPDF" -> DownloadPdfAnswer(t, answer)

\* ------------------------------------------------------------- specifications
\* the pending table's handlers and the Refresh button of one officer tab
ReviewStep(t, outcomes) ==
    \/ Refresh(t)
    \/ \E k \in DOMAIN applications[t], out \in outcomes : HandleApprove(t, k, out)
    \/ \E k \in DOMAIN applications[t], out \in outcomes : HandleReject(t, k, out)

\* the comparison modal's handlers of one officer tab, with the comparisons
\* of the given methods
ComparisonStep(t, methods, outcomes) ==
    \/ \E k \in DOMAIN applications[t] : HandleViewDetails(t, k)
    \/ CloseComparisonModal(t)
    \/ \E method \in methods : RunComparison(t, method)
    \/ \E method \in methods, outcome \in CompareOutcomes : CompareResponse(t, method, outcome)
    \/ \E method \in methods, out \in outcomes : HandleApproveMethod(t, method, out)
    \/ \E method \in methods : HandleDownloadPreview(t, method)

\* the answer to the form's village request and the form's submit handler;
\* each submission happens one millisecond after the one before
FormStep(t, inputTypes, outcomes) ==
    \/ \E outcome \in FetchOutcomes : FetchVillagesAnswer(t, outcome)
    \/ \E villageName \in VillageInputs : FormHandleVillageChange(t, villageName)
    \/ \E villageName \in VillageInputs, outcome \in FetchOutcomes :
          SurveyNumbersAnswer(t, villageName, outcome)
    \/ \E direction \in DirectionInputs, village \in VillageInputs,
       inputType \in inputTypes, surveyNumber \in SurveyInputs, image \in ImageInputs,
       timestamp \in {now + 1} \cap (0..MaxTime), out \in outcomes \ {"logs"} :
          HandleSubmit(t, direction, village, inputType, surveyNumber, image,
                       timestamp, 0, out)

\* the form's file input, shown with inputType 'image', given a file of the
\* largest size that handleImageChange accepts
ImageStep(t) == HandleImageChange(t, <<MaxImageSize>>)

\* texts typed into the form's free-text feature index input, which is shown
\* while the form has no survey numbers to offer
SurveyTexts == {"", "1", "7", "abc"}

\* a submission by survey number through the free-text input
FreeTextStep(t) ==
    \/ \E outcome \in FetchOutcomes : FetchVillagesAnswer(t, outcome)
    \/ FormHandleVillageChange(t, "ambeli")
    \/ \E outcome \in FetchOutcomes \ {"success"} : SurveyNumbersAnswer(t, "ambeli", outcome)
    \/ \E surveyNumber \in SurveyTexts, timestamp \in {now + 1} \cap (0..MaxTime) :
          /\ customForm[t].surveyNumbers = <<>>
          /\ ~customForm[t].loadingSurveyNumbers
          /\ HandleSubmit(t, "North", "ambeli", "survey", surveyNumber, Null, timestamp, 0, "ok")

\* the applicant dashboard's handlers of one tab
GeneralStep(t) ==
    \/ OpenFormModal(t)
    \/ CloseFormModal(t)
    \/ \E k \in DOMAIN recentApplications[t] : HandleDownloadPDF(t, k)

\* Two tabs share the store and no write fails: tab1 is used for every
\* dashboard and the form, tab2 is a second officer dashboard on which the
\* pending table is used.
Next ==
    \/ \E r \in {"/general", "/dslr", "/form"} : Navigate("tab1", r)
    \/ ReviewStep("tab1", {"ok"})
    \/ ComparisonStep("tab1", Methods, {"ok"})
    \/ FormStep("tab1", InputTypes, {"ok"})
    \/ ImageStep("tab1")
    \/ GeneralStep("tab1")
    \/ Navigate("tab2", "/dslr")
    \/ ReviewStep("tab2", {"ok"})

Spec == Init /\ [][Next]_vars

\* the handlers of the map comparison dashboard of one tab and the answers
\* to its calls
MapStep(t) ==
    \/ \E villageName \in {""} \cup DOMAIN FeatureCount : HandleVillageChange(t, villageName)
    \/ \E text \in IndexInputs : SetChosenIndex(t, text)
    \/ \E method \in Methods : SetComparisonMethod(t, method)
    \/ MapRunComparison(t)
    \/ GeneratePDF(t)
    \/ \E answer \in Answers(t, "checkHealth") : CheckHealthAnswer(t, answer)
    \/ \E answer \in Answers(t, "getVillages") : GetVillagesAnswer(t, answer)
    \/ \E answer \in Answers(t, "getVillageStructure") : GetVillageStructureAnswer(t, answer)
    \/ \E answer \in Answers(t, "runComparison") : MapCompareAnswer(t, answer)
    \/ \E answer \in Answers(t, "generatePDF") : GeneratePdfAnswer(t, answer)
    \/ \E answer \in Answers(t, "downloadPDF") : DownloadPdfAnswer(t, answer)

\* One tab on the map comparison dashboard.
NextMap ==
    \/ Navigate("tab1", "/map-comparison")
    \/ MapStep("tab1")

SpecMap == Init /\ [][NextMap]_vars

\* One tab that visits the form, the officer dashboard, the applicant
\* dashboard and the map comparison dashboard; no write fails.
NextClients ==
    \/ \E r \in {"/form", "/dslr", "/general", "/map-comparison"} : Navigate("tab1", r)
    \/ FreeTextStep("tab1")
    \/ ComparisonStep("tab1", Methods, {"ok"})
    \/ GeneralStep("tab1")
    \/ MapStep("tab1")

SpecClients == Init /\ [][NextClients]_vars

\* the axios instance rejects a pending call when its timeout elapses
ApiTimeout(t, call) == ApiAnswer(t, call, [kind |-> "timeout"])

\* One tab with the form, the officer's comparison modal and the map
\* comparison dashboard. The backend need not ever answer; the only step that
\* is bound to happen is the timeout of a pending call of the axios instance.
NextLive ==
    \/ \E r \in {"/form", "/dslr", "/map-comparison"} : Navigate("tab1", r)
    \/ FormStep("tab1", {"survey"}, {"ok"})
    \/ ComparisonStep("tab1", {"standard"}, {"ok"})
    \/ MapStep("tab1")

SpecLive ==
    /\ Init
    /\ [][NextLive]_vars
    /\ \A call \in ApiCalls : WF_vars(ApiTimeout("tab1", call))

\* One tab with the form (at /form and in the applicant dashboard's modal),
\* whose write may fail, and the officer's pending table.
NextForm ==
    \/ \E r \in {"/form", "/general", "/dslr"} : Navigate("tab1", r)
    \/ FormStep("tab1", InputTypes, {"ok", "apps"})
    \/ ImageStep("tab1")
    \/ GeneralStep("tab1")
    \/ ReviewStep("tab1", {"ok"})

SpecForm == Init /\ [][NextForm]_vars

\* One tab; a setItem may throw QuotaExceededError.
NextQuota ==
    \/ \E r \in {"/general", "/dslr", "/form"} : Navigate("tab1", r)
    \/ ReviewStep("tab1", StorageOutcomes)
    \/ ComparisonStep("tab1", Methods, StorageOutcomes)
    \/ FormStep("tab1", InputTypes, StorageOutcomes)
    \/ ImageStep("tab1")
    \/ GeneralStep("tab1")

SpecQuota == Init /\ [][NextQuota]_vars

\* One tab with the login page and every route; no write fails.
NextAuth ==
    \/ \E r \in Routes : Navigate("tab1", r)
    \/ \E user \in Users \cup {"nobody"} : HandleLogin("tab1", user)
    \/ ReviewStep("tab1", {"ok"})
    \/ ComparisonStep("tab1", Methods, {"ok"})
    \/ FormStep("tab1", InputTypes, {"ok"})
    \/ ImageStep("tab1")
    \/ GeneralStep("tab1")

SpecAuth == Init /\ [][NextAuth]_vars

\* The writers of the activity log in one tab: survey applications submitted
\* from the form, the pending table and the comparison modal with the standard
\* comparison, and writes that may fail.
NextLog ==
    \/ \E r \in {"/dslr", "/form"} : Navigate("tab1", r)
    \/ ReviewStep("tab1", StorageOutcomes)
    \/ ComparisonStep("tab1", {"standard"}, StorageOutcomes)
    \/ FormStep("tab1", {"survey"}, {"ok"})

SpecLog == Init /\ [][NextLog]_vars

\* the values of the survey-number select: its empty option and the index of
\* every feature listed (the select replaces the free-text input while the
\* list is not empty)
SurveyOptions(t) ==
    {""} \cup {ToString(customForm[t].surveyNumbers[i].index) :
                  i \in DOMAIN customForm[t].surveyNumbers}

\* the form used with its selects only: a village of the catalog is chosen,
\* its survey numbers are requested and answered in any order, and an
\* application is submitted with an option of the survey-number select
SelectStep(t) ==
    \/ \E outcome \in FetchOutcomes : FetchVillagesAnswer(t, outcome)
    \/ \E villageName \in {""} \cup DOMAIN FeatureCount : FormHandleVillageChange(t, villageName)
    \/ \E villageName \in DOMAIN FeatureCount, outcome \in FetchOutcomes :
          SurveyNumbersAnswer(t, villageName, outcome)
    \/ \E surveyNumber \in SurveyOptions(t), timestamp \in {now + 1} \cap (0..MaxTime) :
          /\ customForm[t].surveyNumbers # <<>>
          /\ ~customForm[t].loadingSurveyNumbers
          /\ HandleSubmit(t, "North", customForm[t].village, "survey", surveyNumber, Null,
                          timestamp, 0, "ok")

\* One tab with the form at /form, used with its selects only.
NextSelect ==
    \/ Navigate("tab1", "/form")
    \/ SelectStep("tab1")

SpecSelect == Init /\ [][NextSelect]_vars

\* the form submitting survey applications for one village, with Date.now()
\* the same as at the submission before or one millisecond later, and any of
\* the random components
IdStep(t) ==
    \/ \E outcome \in FetchOutcomes : FetchVillagesAnswer(t, outcome)
    \/ FormHandleVillageChange(t, "ambeli")
    \/ \E outcome \in FetchOutcomes : SurveyNumbersAnswer(t, "ambeli", outcome)
    \/ \E timestamp \in {now, now + 1} \cap (0..MaxTime), random \in RandomInputs :
          /\ Len(mapApplications) < MaxApplications
          /\ HandleSubmit(t, "North", "ambeli", "survey", "1", Null, timestamp, random, "ok")

\* Two tabs with the form at /form that share the store.
NextIds ==
    \/ \E t \in Tabs : Navigate(t, "/form")
    \/ \E t \in Tabs : IdStep(t)

SpecIds == Init /\ [][NextIds]_vars

\* the form used with files of every size of FileInputs: a village is chosen,
\* files are selected, and the application is submitted with either inputType
UploadStep(t) ==
    \/ \E outcome \in FetchOutcomes : FetchVillagesAnswer(t, outcome)
    \/ FormHandleVillageChange(t, "ambeli")
    \/ \E outcome \in FetchOutcomes : SurveyNumbersAnswer(t, "ambeli", outcome)
    \/ \E file \in FileInputs : HandleImageChange(t, file)
    \/ \E inputType \in InputTypes, timestamp \in {now + 1} \cap (0..MaxTime) :
          HandleSubmit(t, "North", "ambeli", inputType, "1", HeldImage(t), timestamp, 0, "ok")

\* One tab with the form at /form and its file input.
NextImage ==
    \/ Navigate("tab1", "/form")
    \/ UploadStep("tab1")

SpecImage == Init /\ [][NextImage]_vars

\* ------------------------------------------------------------- properties
IsPrefix(s, t) == Len(s) <= Len(t) /\ SubSeq(t, 1, Len(s)) = s

StoredAfter(id) == {k \in DOMAIN mapApplications' : mapApplications'[k].id = id}

\* an approve handler of tab t runs to its end on the application with this id
ApproveOf(t, id) ==
    \/ \E k \in DOMAIN applications[t] :
          /\ applications[t][k].id = id
          /\ HandleApprove(t, k, "ok")
    \/ \E method \in Methods :
          /\ selectedApplication[t] # <<>>
          /\ selectedApplication[t][1].id = id
          /\ HandleApproveMethod(t, method, "ok")

\* C1: an approve changes an application's status only when its stored status
\* is 'Pending DSLR Approval'; on an application stored in any other status it
\* fails and leaves the store (applications and log) unchanged.
C1_ApproveOnlyFromPending ==
    [][\A t \in Tabs : \A k \in DOMAIN mapApplications :
          (mapApplications[k].status # Pending /\ ApproveOf(t, mapApplications[k].id))
             => (mapApplications' = mapApplications /\ activityLogs' = activityLogs)]_vars

\* C2: once an application is stored as 'Rejected', no action changes its
\* stored status again.
C2_RejectedIsTerminal ==
    [][\A k \in DOMAIN mapApplications :
          mapApplications[k].status = Rejected
             => \A j \in StoredAfter(mapApplications[k].id) :
                   mapApplications'[j].status = Rejected]_vars

\* C3: every stored application that is 'Ready for Download' has a
\* comparisonMethod and a sessionId, and Download PDF never requests the
\* report of an undefined session.
C3_ReadyIsBound ==
    /\ \A k \in DOMAIN mapApplications :
          mapApplications[k].status = Ready
             => /\ mapApplications[k].comparisonMethod # Undefined
                /\ mapApplications[k].sessionId # NoSession
    /\ pdfRequest # <<NoSession>>

\* C4: once a stored application carries a comparisonMethod and a sessionId,
\* no action changes or clears either field.
C4_BindingImmutable ==
    [][\A k \in DOMAIN mapApplications :
          (mapApplications[k].comparisonMethod # Undefined
              /\ mapApplications[k].sessionId # NoSession)
             => \A j \in StoredAfter(mapApplications[k].id) :
                   /\ mapApplications'[j].comparisonMethod = mapApplications[k].comparisonMethod
                   /\ mapApplications'[j].sessionId = mapApplications[k].sessionId]_vars

\* ids of the stored applications whose stored status a step changes
StatusChanged ==
    {mapApplications[k].id : k \in
        {i \in DOMAIN mapApplications :
            \E j \in StoredAfter(mapApplications[i].id) :
                mapApplications'[j].status # mapApplications[i].status}}

\* C5: every step adds as many activity log entries as it changes stored
\* statuses: one entry per transition, and no entry without a transition.
C5_OneLogPerTransition ==
    [][Len(activityLogs') = Len(activityLogs) + Cardinality(StatusChanged)]_vars

\* C6: the stored activity log is append-only: after every step the log before
\* the step is a prefix of the log after it.
C6_LogAppendOnly == [][IsPrefix(activityLogs, activityLogs')]_vars

\* an entry has been appended to a log that already held one
C6_Witness == Len(activityLogs) >= 2

ApprovalLogged(id, method) ==
    \E i \in DOMAIN activityLogs :
        /\ activityLogs[i].action = "Approved"
        /\ activityLogs[i].id = id
        /\ activityLogs[i].method = method

\* C7: an approval is all-or-nothing: a stored application carries a bound
\* method and session exactly when the log holds the entry of that approval.
C7_ApprovalAllOrNothing ==
    \A k \in DOMAIN mapApplications : \A method \in Methods :
        (mapApplications[k].comparisonMethod = method /\ mapApplications[k].sessionId # NoSession)
           <=> ApprovalLogged(mapApplications[k].id, method)

\* an approve or reject handler of tab t runs with an id that matches no
\* application of the list it updates (handleApprove and handleReject take
\* the id from a row of that list)
UnknownIdStep(t) ==
    \E method \in Methods, out \in StorageOutcomes :
        /\ selectedApplication[t] # <<>>
        /\ selectedApplication[t][1].id \notin Ids(applications[t])
        /\ HandleApproveMethod(t, method, out)

\* C8: an approve or reject whose id matches no application of the list being
\* updated reports a failure, writes no log entry and reports no success.
C8_UnknownIdFails ==
    [][\A t \in Tabs :
          UnknownIdStep(t) => (activityLogs' = activityLogs /\ toast'.kind = "error")]_vars

\* C9: every application ever stored stays stored, and no step takes a stored
\* application out of a status that an approve or reject wrote.
C9_AtomicStore ==
    [][/\ Ids(mapApplications) \subseteq Ids(mapApplications')
       /\ \A k \in DOMAIN mapApplications :
             mapApplications[k].status # Pending
                => \A j \in StoredAfter(mapApplications[k].id) :
                      mapApplications'[j].status = mapApplications[k].status]_vars

\* C10: the store gains an application only while the logged-in user is
\* 'general', and a stored status or the log changes only while the logged-in
\* user is 'dslr'.
C10_AuthorizedByRole ==
    [][/\ Len(mapApplications') > Len(mapApplications) => loggedInUser = "general"
       /\ (StatusChanged # {} \/ activityLogs' # activityLogs) => loggedInUser = "dslr"]_vars

\* the health check has reported the capability to the dashboard of tab t
\* (the officer and the applicant dashboards keep no health report)
Reported(t, capability) ==
    /\ Dashboard(t).backendHealth # <<>>
    /\ Dashboard(t).backendHealth[1][capability]

\* the comparison requests of tab t that await their answer
CompareRequests(t) ==
    {inflight[t][method][1] : method \in {m \in Methods : inflight[t][m] # <<>>}}
    \cup {apiCalls[t]["runComparison"][1] : x \in {c \in {"runComparison"} : Calling(t, c)}}

\* C11: no client has a comparison request with comparison_method 'advanced'
\* in flight unless the health check has reported
\* advanced_comparison_available = true to it (map comparison dashboard and
\* officer comparison modal alike).
C11_AdvancedOnlyIfAvailable ==
    \A t \in Tabs : \A request \in CompareRequests(t) :
        request.comparison_method = "advanced"
           => Reported(t, "advanced_comparison_available")

\* a handler of tab t sends a generate-pdf request in this step
SendsGeneratePdf(t) ==
    \/ \E k \in DOMAIN recentApplications[t] : HandleDownloadPDF(t, k)
    \/ \E method \in Methods : HandleDownloadPreview(t, method)
    \/ GeneratePDF(t) /\ pdfRequest' # <<>>

\* C12: no client sends a generate-report request unless the health check has
\* reported pdf_generation_available = true to it (Generate PDF of the map
\* comparison dashboard, Download PDF Preview of the officer, Download PDF of
\* the applicant).
C12_ReportOnlyIfAvailable ==
    [][\A t \in Tabs : SendsGeneratePdf(t) => Reported(t, "pdf_generation_available")]_vars

\* a piece of the message is the text
Names(message, text) == \E i \in DOMAIN message : message[i] = text

\* runComparison of tab t runs in this step with a structure loaded and an
\* entered index outside 0..num_features-1
OutOfRangeRun(t) ==
    /\ MapRunComparison(t)
    /\ Dashboard(t).villageStructure # <<>>
    /\ Dashboard(t).villageStructure[1].num_features >= 1
    /\ ~isNaN(ParseInt(Dashboard(t).chosenIndex))
    /\ ParseInt(Dashboard(t).chosenIndex) \notin
           0..(Dashboard(t).villageStructure[1].num_features - 1)

\* C13: with a structure of n >= 1 features loaded, runComparison on an
\* entered index outside 0..n-1 sends no request and raises an error message
\* that names the upper bound n-1.
C13_OutOfRangeNamesBound ==
    [][\A t \in Tabs :
          OutOfRangeRun(t)
             => /\ apiCalls' = apiCalls
                /\ toast'.kind = "error"
                /\ Names(toast'.msg,
                         ToString(Dashboard(t).villageStructure[1].num_features - 1))]_vars

\* the request names a listed village and one of its feature indices
ValidIndex(request) ==
    /\ ~isNaN(request.chosen_index)
    /\ request.village_name \in DOMAIN FeatureCount
    /\ request.chosen_index \in 0..(FeatureCount[request.village_name] - 1)

\* C14: every comparison request in flight, from any client, carries a
\* chosen_index that is an integer with 0 <= chosen_index < featureCount of
\* the village it names.
C14_RequestsCarryValidIndex ==
    \A t \in Tabs : \A request \in CompareRequests(t) : ValidIndex(request)

\* the map comparison dashboard of tab t is rendered with the flag set
MapFlag(t, flag) == route[t] = "/map-comparison" /\ Dashboard(t)[flag]

\* the officer dashboard of tab t is rendered with the method's loading flag set
OfficerFlag(t, method) == route[t] = "/dslr" /\ loadingComparison[t][method]

\* the flags of the map comparison dashboard return to false
MapOperationsEnd ==
    \A t \in Tabs :
        /\ MapFlag(t, "isLoading") ~> ~MapFlag(t, "isLoading")
        /\ MapFlag(t, "isPdfGenerating") ~> ~MapFlag(t, "isPdfGenerating")

\* the flags of the officer's comparison modal return to false
OfficerOperationsEnd ==
    \A t \in Tabs : \A method \in Methods :
        OfficerFlag(t, method) ~> ~OfficerFlag(t, method)

\* C15: no operation blocks indefinitely: every loading flag that a
\* comparison, structure or report request sets (isLoading, isPdfGenerating,
\* loadingComparison[method]) eventually returns to false, even if the
\* backend never answers.
C15_NoOperationHangs == MapOperationsEnd /\ OfficerOperationsEnd

\* the village request of the form of tab t fails in this step (an error, a
\* status that is not ok, or success = false)
FetchVillagesFails(t) ==
    \E outcome \in FetchOutcomes \ {"success"} : FetchVillagesAnswer(t, outcome)

\* C16: when the form's list-areas request fails or answers success = false,
\* the failure is shown to the user and the form offers no village that a
\* successful answer did not return.
C16_CatalogErrorSurfaced ==
    [][\A t \in Tabs :
          FetchVillagesFails(t)
             => /\ toast'.kind = "error"
                /\ customForm'[t].villages = <<>>]_vars

\* the 2xx answers to /compare that report success = false
FailedComparisons == {Ok(body) : body \in {b \in CompareBodies(NoSession) : ~b.success}}

\* C17: the map comparison dashboard stores an answer as comparisonResults
\* only when it reports success = true; an answer with success = false is
\* shown as an error with its reason and leaves comparisonResults empty.
C17_NoSilentFailure ==
    [][\A t \in Tabs :
          /\ mapDashboard'[t].comparisonResults # <<>>
                => mapDashboard'[t].comparisonResults[1].success
          /\ \A answer \in FailedComparisons :
                MapCompareAnswer(t, answer)
                   => /\ toast'.kind = "error"
                      /\ Names(toast'.msg, answer.data.error)]_vars

\* the answers with an error status and a body {error: m}
ServerErrors == {answer \in Failures : answer.kind = "status"}

\* C18: for every apiService call that fails with a server answer carrying
\* {error: m}, the message shown to the user contains m and handleApiError,
\* given the error the call threw, reports the answer's HTTP status.
C18_FailureCarriesReason ==
    [][\A t \in Tabs : \A call \in ApiCalls : \A answer \in ServerErrors :
          ApiAnswer(t, call, answer)
             => /\ toast'.kind = "error"
                /\ Names(toast'.msg, answer.error)
                /\ handleApiError(Rethrown(call, AxiosError(answer))).status
                      = answer.status]_vars

\* the result lists that the map comparison dashboard of some tab displays
DisplayedLists ==
    {Dashboard(t).comparisonResults[1].results[1] :
        t \in {u \in Tabs : /\ route[u] = "/map-comparison"
                            /\ Dashboard(u).comparisonResults # <<>>
                            /\ Dashboard(u).comparisonResults[1].results # <<>>}}

\* C19: for every displayed result list of length N the ranks shown in the
\* results table are 1, 2, ..., N in list order, whatever the method and
\* whatever rank each result carries in the answer.
C19_RanksAreOneToN ==
    \A list \in DisplayedLists :
        /\ Len(ResultsTable(list)) = Len(list)
        /\ \A i \in 1..Len(list) : ResultsTable(list)[i].rank = i

\* a list of two results is displayed whose ranks in the answer are not 1, 2
C19_Witness ==
    \E list \in DisplayedLists :
        /\ Len(list) = 2
        /\ <<list[1].rank, list[2].rank>> # <<1, 2>>

\* exactly one of surveyNumber and image is not null, and direction and
\* village are not empty
OneLocator(app) ==
    /\ (app.surveyNumber # Null) # (app.image # Null)
    /\ app.direction # ""
    /\ app.village # ""

\* the form's values lack direction, village or the locator of inputType
LacksInput(direction, village, inputType, surveyNumber, image) ==
    \/ direction = ""
    \/ village = ""
    \/ inputType = "survey" /\ surveyNumber = ""
    \/ inputType = "image" /\ image = Null

\* C20: every stored application has exactly one of surveyNumber and image
\* non-null, the one its inputType chose, and a non-empty direction and
\* village; a submission that lacks direction, village or the locator of its
\* inputType leaves the store unchanged. (For every choice of the form's
\* values: the step has this effect, or it is not a submission of them.)
C20_OneLocatorPerApplication ==
    [][\A t \in Tabs, direction \in DirectionInputs, village \in VillageInputs,
          inputType \in InputTypes, surveyNumber \in SurveyInputs, image \in ImageInputs :
          \/ IF LacksInput(direction, village, inputType, surveyNumber, image)
             THEN mapApplications' = mapApplications
             ELSE \A k \in DOMAIN mapApplications' :
                     /\ OneLocator(mapApplications'[k])
                     /\ k > Len(mapApplications)
                           => (mapApplications'[k].surveyNumber # Null
                                  <=> inputType = "survey")
          \/ ~\E out \in StorageOutcomes :
                 HandleSubmit(t, direction, village, inputType, surveyNumber, image,
                              now + 1, 0, out)]_vars

\* the store holds an application by survey number and one by image
C20_Witness ==
    /\ \E k \in DOMAIN mapApplications : mapApplications[k].surveyNumber # Null
    /\ \E k \in DOMAIN mapApplications : mapApplications[k].image # Null

\* the stored applications that a step adds (their ids were not stored before)
Appended == {j \in DOMAIN mapApplications' : mapApplications'[j].id \notin Ids(mapApplications)}

\* C21: every application that a step adds to the store has status 'Pending
\* DSLR Approval' and neither comparisonMethod nor sessionId, and a stored
\* status only ever moves from 'Pending DSLR Approval' to 'Ready for Download'
\* or to 'Rejected'.
C21_StartsPendingMovesForward ==
    [][/\ \A j \in Appended :
             /\ mapApplications'[j].status = Pending
             /\ mapApplications'[j].comparisonMethod = Undefined
             /\ mapApplications'[j].sessionId = NoSession
       /\ \A k \in DOMAIN mapApplications : \A j \in StoredAfter(mapApplications[k].id) :
             mapApplications'[j].status # mapApplications[k].status
                => /\ mapApplications[k].status = Pending
                   /\ mapApplications'[j].status \in {Ready, Rejected}]_vars

\* the officer of tab t presses a Run Comparison button in this step for the
\* application opened in the modal, which is stored as pending
RunsComparisonOnPending(t, method) ==
    /\ RunComparison(t, method)
    /\ \E k \in DOMAIN mapApplications :
          /\ mapApplications[k].id = selectedApplication[t][1].id
          /\ mapApplications[k].status = Pending

\* C22: for every pending application, submitted with a survey number or with
\* an uploaded image, running a comparison sends the comparison request whose
\* answer the approval binds the session of.
C22_EveryLocatorComparable ==
    [][\A t \in Tabs : \A method \in Methods :
          RunsComparisonOnPending(t, method) => inflight'[t][method] # <<>>]_vars

\* the session was returned to a comparison request for the application's own
\* village and survey index
IssuedForApplication(session, app) ==
    /\ app.surveyNumber # Null
    /\ issuedFor[session] = [village_name |-> app.village,
                             chosen_index |-> ParseInt(app.surveyNumber)]

\* C23: whenever handleApproveMethod binds a session id to the application
\* opened in the modal, that session was returned to a comparison request
\* issued for this application's village and survey index, also when the
\* answer to a request started for another application arrives late.
C23_SessionBelongsToApplication ==
    [][\A t \in Tabs : \A method \in Methods :
          HandleApproveMethod(t, method, "ok")
             => IssuedForApplication(comparisonResults[t][method], selectedApplication[t][1])]_vars

\* the survey-number lists that belong to the village: the empty list and, for
\* a village of the catalog, the list the backend returns for it
ListsOf(villageName) ==
    {<<>>} \cup {SurveyNumbersOf(v) : v \in {villageName} \cap DOMAIN FeatureCount}

\* C24: whenever no survey-number request of the form is in flight, its
\* surveyNumbers is the list returned for the selected village or is empty,
\* in whatever order the answers to earlier requests arrive, and every
\* application submitted from the survey-number select names a feature index
\* of its own village.
C24_SurveyNumbersOfSelectedVillage ==
    /\ \A t \in Tabs :
          (FormShown(t) /\ customForm[t].surveyRequests = {})
             => customForm[t].surveyNumbers \in ListsOf(customForm[t].village)
    /\ \A k \in DOMAIN mapApplications :
          ParseInt(mapApplications[k].surveyNumber)
             \in 0..(FeatureCount[mapApplications[k].village] - 1)

\* C25: no two stored applications have the same id, whatever the submission
\* timestamps and the random components of generateApplicationId.
C25_IdsUnique ==
    \A i, j \in DOMAIN mapApplications :
        i # j => mapApplications[i].id # mapApplications[j].id

\* the stored list after the step has the length and order of the list before
\* it, every application with another id is the same, and the applications
\* with this id differ in the given fields at most
TouchesOnly(id, fields) ==
    /\ Len(mapApplications') = Len(mapApplications)
    /\ \A k \in DOMAIN mapApplications :
          IF mapApplications[k].id # id
          THEN mapApplications'[k] = mapApplications[k]
          ELSE \A field \in DOMAIN mapApplications[k] \ fields :
                  mapApplications'[k][field] = mapApplications[k][field]

\* C26: handleApprove and handleReject change nothing in the stored list but
\* the status of their target, handleApproveMethod nothing but the status,
\* comparisonMethod and sessionId of its target; the list keeps its length
\* and order and every other application is left as it was.
C26_TouchOnlyTarget ==
    [][\A t \in Tabs :
          /\ \A k \in DOMAIN applications[t] :
                (HandleApprove(t, k, "ok") \/ HandleReject(t, k, "ok"))
                   => TouchesOnly(applications[t][k].id, {"status"})
          /\ \A method \in Methods :
                HandleApproveMethod(t, method, "ok")
                   => TouchesOnly(selectedApplication[t][1].id,
                                  {"status", "comparisonMethod", "sessionId"})]_vars

\* C27: whenever the map comparison dashboard holds comparisonResults, its
\* sessionId is the session_id of those results, and no generate-pdf request
\* of the dashboard is made without a session id, after any village changes
\* and successful or failed runs.
C27_ReportForDisplayedRun ==
    \A t \in Tabs :
        /\ Dashboard(t).comparisonResults # <<>>
              => Dashboard(t).sessionId = Dashboard(t).comparisonResults[1].session_id
        /\ Calling(t, "generatePDF") => apiCalls[t]["generatePDF"][1] # NoSession

\* a report is being generated for the results displayed, which are those of
\* a run made after a change of village
C27_Witness ==
    \E t \in Tabs :
        /\ Dashboard(t).comparisonResults # <<>>
        /\ Calling(t, "generatePDF")
        /\ apiCalls[t]["generatePDF"][1] = Dashboard(t).comparisonResults[1].session_id
        /\ Dashboard(t).selectedVillage = "antorieum"

\* the map comparison dashboard of tab t displays results
Displays(t) == route[t] = "/map-comparison" /\ Dashboard(t).comparisonResults # <<>>

\* C28: the score columns shown with the displayed results are those of the
\* method that produced them: when an answer is stored the columns are those
\* of the comparison_method of its request, and no method selection or other
\* step changes the columns while the same results stay displayed.
C28_ColumnsMatchRun ==
    [][\A t \in Tabs :
          /\ \A answer \in Answers(t, "runComparison") :
                (MapCompareAnswer(t, answer) /\ mapDashboard'[t].comparisonResults # <<>>)
                   => ScoreColumns(mapDashboard'[t].comparisonMethod)
                         = ScoreColumns(apiCalls[t]["runComparison"][1].comparison_method)
          /\ (/\ Displays(t)
              /\ route'[t] = "/map-comparison"
              /\ mapDashboard'[t].comparisonResults = Dashboard(t).comparisonResults)
                => ScoreColumns(mapDashboard'[t].comparisonMethod)
                      = ScoreColumns(Dashboard(t).comparisonMethod)]_vars

\* C29: the counters of every officer dashboard partition its applications:
\* total = pending + approved + rejected, every stored status being one of
\* 'Pending DSLR Approval', 'Ready for Download' and 'Rejected'.
C29_CountersPartition ==
    /\ \A t \in Tabs :
          route[t] = "/dslr"
             => stats(t).total = stats(t).pending + stats(t).approved + stats(t).rejected
    /\ \A k \in DOMAIN mapApplications :
          mapApplications[k].status \in {Pending, Ready, Rejected}

\* an officer dashboard has loaded an approved and a rejected application
C29_Witness ==
    \E t \in Tabs :
        /\ route[t] = "/dslr"
        /\ stats(t).approved >= 1
        /\ stats(t).rejected >= 1
        /\ stats(t).total = 2

\* the image is empty or a file within the size limit
WithinLimit(image) == image = <<>> \/ image[1] <= MaxImageSize

\* C30: after every step the image held by the form is empty or a file of at
\* most 5*1024*1024 bytes; selecting a larger file raises an error and leaves
\* the image held unchanged; every image application is submitted with a file
\* held that is within the limit.
C30_ImageWithinLimit ==
    [][\A t \in Tabs :
          /\ WithinLimit(customForm'[t].image)
          /\ \A file \in FileInputs :
                (file # <<>> /\ file[1] > MaxImageSize /\ HandleImageChange(t, file))
                   => /\ toast'.kind = "error"
                      /\ customForm'[t].image = customForm[t].image
          /\ \A timestamp \in 0..MaxTime :
                (/\ HandleSubmit(t, "North", "ambeli", "image", "1", File, timestamp, 0, "ok")
                 /\ Len(mapApplications') > Len(mapApplications))
                   => customForm[t].image # <<>> /\ WithinLimit(customForm[t].image)]_vars

\* a file above the limit has just been refused while the form holds a file of
\* exactly the limit
C30_Witness ==
    \E t \in Tabs :
        /\ FormShown(t)
        /\ toast = Toast("error", "File size should be less than 5MB")
        /\ customForm[t].image = <<MaxImageSize>>

====
